---------------------------- MODULE Spec2Model ----------------------------
(***************************************************************************)
(* ts-path: discovery of TypeScript files and directories, alias           *)
(* derivation, alias conflict resolution, validation of an existing        *)
(* tsconfig.json "paths" table and the merge of a new table into it.       *)
(*                                                                         *)
(* Strings are sequences of one-character strings, so that the character   *)
(* level functions of the program (alias folding, path splitting, length   *)
(* comparisons, localeCompare) are computed and not assumed.  A path is a  *)
(* sequence of segments; a JSON value is a record [t, v] tagged by kind.   *)
(***************************************************************************)
EXTENDS Integers, Sequences, FiniteSets, TLC

(***************************************************************************)
(* Characters                                                              *)
(***************************************************************************)
LowerCase == <<"a","b","c","d","e","f","g","h","i","j","k","l","m",
               "n","o","p","q","r","s","t","u","v","w","x","y","z">>
UpperCase == <<"A","B","C","D","E","F","G","H","I","J","K","L","M",
               "N","O","P","Q","R","S","T","U","V","W","X","Y","Z">>
DigitChars == <<"0","1","2","3","4","5","6","7","8","9">>
PunctChars == <<" ","_","-",".","@","/">>

IndexIn(c, s) ==
  IF \E i \in 1..Len(s) : s[i] = c
  THEN CHOOSE i \in 1..Len(s) : s[i] = c
  ELSE 0

LowerSet == {LowerCase[i] : i \in 1..Len(LowerCase)}
UpperSet == {UpperCase[i] : i \in 1..Len(UpperCase)}
DigitSet == {DigitChars[i] : i \in 1..Len(DigitChars)}

IsLower(c) == c \in LowerSet
IsUpper(c) == c \in UpperSet
IsDigit(c) == c \in DigitSet
IsLetter(c) == IsLower(c) \/ IsUpper(c)
IsAlnum(c) == IsLetter(c) \/ IsDigit(c)

UpperOf == [c \in LowerSet |-> UpperCase[IndexIn(c, LowerCase)]]
LowerOf == [c \in UpperSet |-> LowerCase[IndexIn(c, UpperCase)]]

toUpperCase(c) == IF IsLower(c) THEN UpperOf[c] ELSE c
toLowerCase(c) == IF IsUpper(c) THEN LowerOf[c] ELSE c

(***************************************************************************)
(* node:path (posix) on character sequences                                *)
(***************************************************************************)
sep == "/"

RECURSIVE Join(_)
Join(segs) ==
  IF segs = <<>> THEN <<>>
  ELSE IF Len(segs) = 1 THEN segs[1]
  ELSE segs[1] \o <<sep>> \o Join(Tail(segs))

\* String.prototype.split(path.sep): "" splits to one empty piece.
RECURSIVE Split(_)
Split(s) ==
  LET i == IndexIn(sep, s)
  IN  IF i = 0 THEN <<s>>
      ELSE <<SubSeq(s, 1, i - 1)>> \o Split(SubSeq(s, i + 1, Len(s)))

LastIndexIn(c, s) ==
  IF \E i \in 1..Len(s) : s[i] = c
  THEN CHOOSE i \in 1..Len(s) : s[i] = c /\ \A j \in (i + 1)..Len(s) : s[j] # c
  ELSE 0

\* path.relative(rootDir, p) for an absolute p at or below rootDir.
pathRelative(root, p) == Join(SubSeq(p, Len(root) + 1, Len(p)))

\* path.basename(p) of an absolute path.
pathBasename(p) == IF p = <<>> THEN <<>> ELSE p[Len(p)]

\* path.parse(s): the last piece of s, cut at its last dot unless that dot
\* is its first character.
pathParse(s) ==
  LET pieces == Split(s)
      base   == pieces[Len(pieces)]
      dot    == LastIndexIn(".", base)
  IN  IF dot <= 1
      THEN [name |-> base, ext |-> <<>>]
      ELSE [name |-> SubSeq(base, 1, dot - 1), ext |-> SubSeq(base, dot, Len(base))]

\* Normalisation of path.resolve: "" and "." pieces vanish, ".." pops.
RECURSIVE Normalize(_, _)
Normalize(acc, pieces) ==
  IF pieces = <<>> THEN acc
  ELSE LET h == pieces[1]
       IN  IF h = <<>> \/ h = <<".">> THEN Normalize(acc, Tail(pieces))
           ELSE IF h = <<".", ".">>
                THEN Normalize(IF acc = <<>> THEN acc ELSE SubSeq(acc, 1, Len(acc) - 1),
                               Tail(pieces))
                ELSE Normalize(Append(acc, h), Tail(pieces))

\* path.resolve(rootDir, s): an absolute s replaces rootDir.
pathResolve(root, s) ==
  IF s # <<>> /\ s[1] = sep
  THEN Normalize(<<>>, Split(s))
  ELSE Normalize(root, Split(s))

\* path.join(rootDir, s)
pathJoin(root, s) == Normalize(root, Split(s))

(***************************************************************************)
(* FileUtils.generateAlias                                                 *)
(***************************************************************************)
\* .replace(/[^a-zA-Z0-9]/g, ' ')
ReplaceNonAlnum(s) == [i \in 1..Len(s) |-> IF IsAlnum(s[i]) THEN s[i] ELSE " "]

\* The end of the run of spaces that starts at i.
RECURSIVE RunEnd(_, _)
RunEnd(s, i) == IF i < Len(s) /\ s[i + 1] = " " THEN RunEnd(s, i + 1) ELSE i

\* .replace(/\s+(\w)/g, (_, char) => char.toUpperCase()) on a string of
\* letters, digits and spaces: a run of spaces and the character after it
\* become that character in upper case; a run at the end stays.
RECURSIVE FoldCamel(_, _)
FoldCamel(s, i) ==
  IF i > Len(s) THEN <<>>
  ELSE IF s[i] # " " THEN <<s[i]>> \o FoldCamel(s, i + 1)
  ELSE LET j == RunEnd(s, i)
       IN  IF j < Len(s)
           THEN <<toUpperCase(s[j + 1])>> \o FoldCamel(s, j + 2)
           ELSE SubSeq(s, i, j)

\* .replace(/^(\w)/, (_, char) => char.toLowerCase())
LowerFirst(s) ==
  IF s # <<>> /\ (IsAlnum(s[1]) \/ s[1] = "_")
  THEN <<toLowerCase(s[1])>> \o Tail(s)
  ELSE s

\* The folded name, or for a path without extension its basename.
NameOrBasename(filePath, withoutExt) ==
  IF withoutExt.ext = <<>>
  THEN pathBasename(filePath)
  ELSE LowerFirst(FoldCamel(ReplaceNonAlnum(withoutExt.name), 1))

\* Mutant: the alias is returned as derived.
EnsureLetter_NoPrefix(alias) == alias

\* if (!/^[a-zA-Z]/.test(alias)) alias = 'p' + alias
EnsureLetter(alias) ==
  IF alias # <<>> /\ IsLetter(alias[1]) THEN alias ELSE <<"p">> \o alias

generateAlias(filePath, rootDir) ==
  EnsureLetter(NameOrBasename(filePath, pathParse(pathRelative(rootDir, filePath))))

(***************************************************************************)
(* String.prototype.localeCompare on ASCII strings (root collation):       *)
(* first the primary weights decide (space and punctuation, then digits,   *)
(* then letters without regard to case), then case (lower before upper).   *)
(***************************************************************************)
PrimaryWeightOf ==
  [c \in LowerSet \cup UpperSet \cup DigitSet \cup {PunctChars[i] : i \in 1..Len(PunctChars)} |->
     IF IsLetter(c) THEN 200 + IndexIn(toLowerCase(c), LowerCase)
     ELSE IF IsDigit(c) THEN 100 + IndexIn(c, DigitChars)
     ELSE IndexIn(c, PunctChars)]

PrimaryWeight(c) == PrimaryWeightOf[c]

CaseWeight(c) == IF IsUpper(c) THEN 1 ELSE 0

\* Lexicographic comparison of a and b under the weight W: -1, 0 or 1.
RECURSIVE CompareBy(_, _, _)
CompareBy(W(_), a, b) ==
  IF a = <<>> /\ b = <<>> THEN 0
  ELSE IF a = <<>> THEN -1
  ELSE IF b = <<>> THEN 1
  ELSE IF W(a[1]) < W(b[1]) THEN -1
  ELSE IF W(a[1]) > W(b[1]) THEN 1
  ELSE CompareBy(W, Tail(a), Tail(b))

localeCompare(a, b) ==
  LET primary == CompareBy(PrimaryWeight, a, b)
  IN  IF primary # 0 THEN primary ELSE CompareBy(CaseWeight, a, b)

(***************************************************************************)
(* The project tree.  Paths are absolute: rootDir followed by segments.    *)
(***************************************************************************)
rootDir == << <<"p">> >>

tsconfigName == <<"t","s","c","o","n","f","i","g",".","j","s","o","n">>

\* PathMapper constructor: maxDepth: options.maxDepth || 3
DefaultMaxDepth == 3
OptionMaxDepth(given) == IF given = 0 THEN DefaultMaxDepth ELSE given

\* The files a tree may hold (each brings its ancestor directories).
FileUniverse ==
  << << <<"x",".","t","s">> >>,
     << <<"s","r","c">>, <<"b",".","t","s">> >>,
     << <<"s","r","c">>, <<"a">>, <<"x",".","t","s">> >>,
     << <<"s","r","c">>, <<"b">>, <<"x",".","t","s">> >>,
     << <<"s","r","c">>, <<"a">>, <<"b">>, <<"Y","-","z",".","t","s","x">> >>,
     << <<"s","r","c">>, <<"a">>, <<"b">>, <<"x",".","t","s">> >>,
     << <<"s","r","c">>, <<"a">>, <<"x",".","d",".","t","s">> >>,
     << <<"d","i","s","t">>, <<"x",".","t","s">> >> >>

\* Directories a tree may hold without a file inside.
DirUniverse ==
  << << <<"s","r","c">>, <<"B">> >>,
     << <<"s","r","c">>, <<"u","t","i","l","s">> >> >>

Range(s) == {s[i] : i \in 1..Len(s)}

\* The proper ancestors of a relative path, as relative paths.
Ancestors(rel) == {SubSeq(rel, 1, k) : k \in 1..(Len(rel) - 1)}

\* A set as a sequence, smallest first under the strict order less.
RECURSIVE SortSet(_, _)
SortSet(less(_, _), S) ==
  IF S = {} THEN <<>>
  ELSE LET m == CHOOSE m \in S : \A o \in S : ~less(o, m)
       IN  <<m>> \o SortSet(less, S \ {m})

RECURSIVE Concat(_)
Concat(ss) == IF ss = <<>> THEN <<>> ELSE ss[1] \o Concat(Tail(ss))

VARIABLES
  files,      \* the files of the tree (absolute paths)
  dirs,       \* the directories of the tree below rootDir (absolute paths)
  maxDepth,   \* options.maxDepth as given to the PathMapper constructor
  config,     \* the content of tsconfig.json: a JSON value, or no file
  listing,    \* the order in which the file system hands out entries
  last        \* the last operation: its inputs, its outcome, its I/O calls

vars == <<files, dirs, maxDepth, config, listing, last>>

\* Every path a tree may hold, relative to rootDir.
EntryUniverse ==
  LET given == Range(FileUniverse) \cup Range(DirUniverse)
  IN  given \cup UNION {Ancestors(e) : e \in given}

\* The order in which the operating system hands out the entries of one
\* directory (fs.readdir) and the matches of one pattern (glob) is not
\* fixed by the program: by name ascending on one file system, descending
\* on another.  ListingRank[o][e] is the number of entries handed out
\* before e under the order o.
ListingOrders == {"ascending", "descending"}

ListingRank ==
  [o \in ListingOrders |->
     [e \in EntryUniverse |->
        Cardinality({x \in EntryUniverse :
                       IF o = "ascending"
                       THEN localeCompare(Join(x), Join(e)) < 0
                       ELSE localeCompare(Join(x), Join(e)) > 0})]]

ListedBefore(p, q) ==
  ListingRank[listing][SubSeq(p, Len(rootDir) + 1, Len(p))]
    < ListingRank[listing][SubSeq(q, Len(rootDir) + 1, Len(q))]

\* An I/O fault met by one operation: none, the glob call rejects, readdir
\* of one directory fails, stat of one entry fails, or writeFile fails.
NoFault == [kind |-> "none", at |-> <<>>]
Faults ==
  {NoFault, [kind |-> "glob", at |-> <<>>]}
    \cup {[kind |-> "readdir", at |-> d] : d \in dirs \cup {rootDir}}
    \cup {[kind |-> "stat", at |-> e] : e \in dirs \cup files}
    \cup {[kind |-> "write", at |-> <<>>]}

(***************************************************************************)
(* FileUtils.getTypeScriptFiles: glob of every include pattern, without    *)
(* the ignored paths, the matches of all patterns without duplicates.      *)
(***************************************************************************)
EndsWith(s, suffix) ==
  /\ Len(s) >= Len(suffix)
  /\ SubSeq(s, Len(s) - Len(suffix) + 1, Len(s)) = suffix

\* rootDir/**/*<ext>: a file below rootDir whose name ends with ext and does
\* not start with a dot.
includePatterns == << <<".","t","s">>, <<".","t","s","x">> >>

\* **/*.d.ts
excludeSuffix == <<".","d",".","t","s">>

\* **/node_modules/**, **/dist/**, **/build/**, **/.git/**
excludeDirs ==
  { <<"n","o","d","e","_","m","o","d","u","l","e","s">>, <<"d","i","s","t">>,
    <<"b","u","i","l","d">>, <<".","g","i","t">> }

Ignored(f) ==
  \/ EndsWith(pathBasename(f), excludeSuffix)
  \/ \E k \in (Len(rootDir) + 1)..(Len(f) - 1) : f[k] \in excludeDirs

GlobMatches(ext) ==
  SortSet(ListedBefore,
          {f \in files : /\ EndsWith(pathBasename(f), ext)
                         /\ pathBasename(f)[1] # "."
                         /\ ~Ignored(f)})

\* [...new Set(files)]: the first occurrence of every element.
RECURSIVE Dedupe(_)
Dedupe(s) ==
  IF s = <<>> THEN <<>>
  ELSE LET front == Dedupe(SubSeq(s, 1, Len(s) - 1))
           x     == s[Len(s)]
       IN  IF x \in Range(front) THEN front ELSE Append(front, x)

\* [ok |-> TRUE, value |-> the files] or [ok |-> FALSE] when glob rejects.
getTypeScriptFiles(fault) ==
  IF fault.kind = "glob"
  THEN [ok |-> FALSE, value |-> <<>>]
  ELSE [ok |-> TRUE,
        value |-> Dedupe(Concat([i \in 1..Len(includePatterns) |->
                                   GlobMatches(includePatterns[i])]))]

(***************************************************************************)
(* FileUtils.getDirectoryStructure: the directories below dir, in          *)
(* pre-order, down to maxDepth levels.  A failure of readdir, or of stat   *)
(* on any entry of dir, is caught at that level, which then returns [].    *)
(***************************************************************************)
Readdir(dir) ==
  SortSet(ListedBefore,
          {e \in files \cup dirs : Len(e) = Len(dir) + 1 /\ SubSeq(e, 1, Len(dir)) = dir})

RECURSIVE getDirectoryStructure(_, _, _, _)
\* The loop over the items of one directory.
WalkItems(items, max, currentDepth, fault) ==
  IF \E i \in 1..Len(items) : fault.kind = "stat" /\ fault.at = items[i]
  THEN <<>>
  ELSE Concat([i \in 1..Len(items) |->
         IF items[i] \in dirs
         THEN <<items[i]>> \o
              getDirectoryStructure(items[i], max, currentDepth + 1, fault)
         ELSE <<>>])

getDirectoryStructure(dir, max, currentDepth, fault) ==
  IF currentDepth >= max THEN <<>>
  ELSE IF fault.kind = "readdir" /\ fault.at = dir THEN <<>>
  ELSE WalkItems(Readdir(dir), max, currentDepth, fault)

(***************************************************************************)
(* PathMapper.discoverPaths                                                *)
(***************************************************************************)
\* Mutant: the number of segments, not of separators.
calculateDepth_Segments(relativePath) == Len(Split(relativePath))

\* relativePath.split(path.sep).length - 1
calculateDepth(relativePath) == Len(Split(relativePath)) - 1

DiscoveredOf(p, type) ==
  LET relativePath == pathRelative(rootDir, p)
  IN  [alias        |-> generateAlias(p, rootDir),
       path         |-> p,
       relativePath |-> relativePath,
       type         |-> type,
       depth        |-> calculateDepth(relativePath)]

\* Mutant: the comparator looks at the depth alone.
compareDiscovered_DepthOnly(a, b) == a.depth - b.depth

\* The comparator of the sort: negative when a goes before b.
compareDiscovered(a, b) ==
  IF a.depth # b.depth THEN a.depth - b.depth
  ELSE localeCompare(a.alias, b.alias)

\* Array.prototype.sort is stable: an element goes after every element that
\* does not compare greater.
RECURSIVE InsertSorted(_, _)
InsertSorted(s, x) ==
  IF s = <<>> THEN <<x>>
  ELSE IF compareDiscovered(s[Len(s)], x) > 0
       THEN Append(InsertSorted(SubSeq(s, 1, Len(s) - 1), x), s[Len(s)])
       ELSE Append(s, x)

RECURSIVE sortDiscovered(_)
sortDiscovered(s) ==
  IF s = <<>> THEN <<>>
  ELSE InsertSorted(sortDiscovered(SubSeq(s, 1, Len(s) - 1)), s[Len(s)])

\* [ok, value, tsFiles, directories]: ok is FALSE when the operation throws
\* "Failed to discover paths"; tsFiles and directories are what the two
\* listers returned.
Process(tsFiles, directories) ==
  IF ~tsFiles.ok
  THEN [ok |-> FALSE, value |-> <<>>, tsFiles |-> <<>>, directories |-> <<>>]
  ELSE [ok |-> TRUE,
        value |-> sortDiscovered(
                    [i \in 1..Len(tsFiles.value) |-> DiscoveredOf(tsFiles.value[i], "file")]
                      \o [i \in 1..Len(directories) |->
                            DiscoveredOf(directories[i], "directory")]),
        tsFiles |-> tsFiles.value, directories |-> directories]

discoverPaths(fault) ==
  Process(getTypeScriptFiles(fault),
          getDirectoryStructure(rootDir, OptionMaxDepth(maxDepth), 0, fault))

(***************************************************************************)
(* PathMapper.resolveAliasConflict and PathMapper.generateMappings         *)
(***************************************************************************)
\* items.reduce((shortest, current) =>
\*   current.relativePath.length < shortest.relativePath.length ? current : shortest)
\* Mutant: a later record of the same length replaces the shortest so far.
RECURSIVE ReduceShortest_LastOfTies(_)
ReduceShortest_LastOfTies(items) ==
  IF Len(items) = 1 THEN items[1]
  ELSE IF Len(items[Len(items)].relativePath)
            <= Len(ReduceShortest_LastOfTies(SubSeq(items, 1, Len(items) - 1)).relativePath)
       THEN items[Len(items)]
       ELSE ReduceShortest_LastOfTies(SubSeq(items, 1, Len(items) - 1))

RECURSIVE ReduceShortest(_)
ReduceShortest(items) ==
  IF Len(items) = 1 THEN items[1]
  ELSE LET shortest == ReduceShortest(SubSeq(items, 1, Len(items) - 1))
           current  == items[Len(items)]
       IN  IF Len(current.relativePath) < Len(shortest.relativePath)
           THEN current ELSE shortest

IsFile(item) == item.type = "file"
IsDirectory(item) == item.type = "directory"

\* Mutant: the shortest record of the group wins, whatever its kind.
resolveAliasConflict_AnyKind(alias, items) ==
  [alias |-> ReduceShortest(items).alias, path |-> ReduceShortest(items).relativePath]

resolveAliasConflict(alias, items) ==
  LET fileItems == SelectSeq(items, IsFile)
      dirItems  == SelectSeq(items, IsDirectory)
  IN  IF Len(fileItems) > 0
      THEN LET shortestFile == ReduceShortest(fileItems)
           IN  [alias |-> shortestFile.alias, path |-> shortestFile.relativePath]
      ELSE IF Len(dirItems) > 0
      THEN LET shortestDir == ReduceShortest(dirItems)
           IN  [alias |-> shortestDir.alias, path |-> shortestDir.relativePath]
      ELSE [alias |-> items[1].alias, path |-> items[1].relativePath]

(***************************************************************************)
(* JSON values and JavaScript objects.  An object is a sequence of         *)
(* <<key, value>> pairs in insertion order, its keys distinct.             *)
(***************************************************************************)
Undefined == [t |-> "undef", v |-> <<>>]
Null      == [t |-> "null", v |-> <<>>]
True      == [t |-> "true", v |-> <<>>]
Str(s)    == [t |-> "str", v |-> s]
Arr(xs)   == [t |-> "arr", v |-> xs]
Obj(ps)   == [t |-> "obj", v |-> ps]

Truthy(x) == x.t \in {"true", "arr", "obj"} \/ (x.t = "str" /\ x.v # <<>>)

\* The own enumerable properties: of an object its pairs, of an array or a
\* string its elements under their indices.
OwnEntries(x) ==
  IF x.t = "obj" THEN x.v
  ELSE IF x.t = "arr" THEN [i \in 1..Len(x.v) |-> <<<<DigitChars[i]>>, x.v[i]>>]
  ELSE IF x.t = "str" THEN [i \in 1..Len(x.v) |-> <<<<DigitChars[i]>>, Str(<<x.v[i]>>)>>]
  ELSE <<>>

Keys(x) == {OwnEntries(x)[i][1] : i \in 1..Len(OwnEntries(x))}

\* x[k]
Get(x, k) ==
  LET es == OwnEntries(x)
  IN  IF \E i \in 1..Len(es) : es[i][1] = k
      THEN es[CHOOSE i \in 1..Len(es) : es[i][1] = k][2]
      ELSE Undefined

\* x[k] = val on an object: an existing key keeps its place.
Set(x, k, val) ==
  IF \E i \in 1..Len(x.v) : x.v[i][1] = k
  THEN Obj([i \in 1..Len(x.v) |-> IF x.v[i][1] = k THEN <<k, val>> ELSE x.v[i]])
  ELSE Obj(Append(x.v, <<k, val>>))

RECURSIVE SetAll(_, _)
SetAll(x, es) ==
  IF es = <<>> THEN x
  ELSE SetAll(Set(x, es[1][1], es[1][2]), Tail(es))

\* Mutant: the entries of b are added after those of a, none replaced.
Spread_Concat(a, b) == Obj(OwnEntries(a) \o OwnEntries(b))

\* Mutant: { ...b, ...a }, the old entries win.
Spread_OldWins(a, b) == SetAll(SetAll(Obj(<<>>), OwnEntries(b)), OwnEntries(a))

\* { ...a, ...b }
Spread(a, b) == SetAll(SetAll(Obj(<<>>), OwnEntries(a)), OwnEntries(b))

\* JSON.parse(JSON.stringify(x)): properties whose value is undefined are
\* left out, undefined array elements become null.
RECURSIVE Serialize(_)
Serialize(x) ==
  IF x.t = "obj"
  THEN LET kept == SelectSeq(x.v, LAMBDA e : e[2].t # "undef")
       IN  Obj([i \in 1..Len(kept) |-> <<kept[i][1], Serialize(kept[i][2])>>])
  ELSE IF x.t = "arr"
  THEN Arr([i \in 1..Len(x.v) |-> IF x.v[i].t = "undef" THEN Null ELSE Serialize(x.v[i])])
  ELSE x

kCompilerOptions == <<"c","o","m","p","i","l","e","r","O","p","t","i","o","n","s">>
kPaths == <<"p","a","t","h","s">>
kInclude == <<"i","n","c","l","u","d","e">>

(***************************************************************************)
(* PathMapper.generateMappings                                             *)
(***************************************************************************)
marker == "@"

\* The keys of aliasGroups in insertion order.
AliasOrder(discovered) == Dedupe([i \in 1..Len(discovered) |-> discovered[i].alias])

\* aliasGroups.get(alias)
AliasGroup(discovered, alias) == SelectSeq(discovered, LAMBDA item : item.alias = alias)

\* Mutant: a conflict group is reported but gets no entry in the table.
ProcessGroup_DropConflict(acc, alias, items) ==
  IF Len(items) = 1
  THEN [acc EXCEPT !.mappings = Set(@, <<"@">> \o alias, Str(items[1].relativePath))]
  ELSE [acc EXCEPT !.warnings = Append(@, [text |-> "Alias conflict resolved",
                                           alias |-> alias, resolved |-> alias,
                                           path |-> items[1].relativePath])]

\* Mutant: a conflict is resolved without a warning.
ProcessGroup_NoWarning(acc, alias, items) ==
  [acc EXCEPT !.mappings = Set(@, <<"@">> \o alias,
                               Str(IF Len(items) = 1 THEN items[1].relativePath
                                   ELSE resolveAliasConflict(alias, items).path))]

\* Mutant: a single record of depth 2 is taken for deep too.
ProcessGroup_DeepFromTwo(acc, alias, items) ==
  IF Len(items) = 1
  THEN [acc EXCEPT
          !.mappings = Set(@, <<"@">> \o alias, Str(items[1].relativePath)),
          !.suggestions =
             IF items[1].depth >= 2
             THEN Append(@, [text |-> "Consider using a shorter alias for deep path",
                             path |-> items[1].relativePath])
             ELSE @]
  ELSE [acc EXCEPT
          !.mappings = Set(@, <<"@">> \o alias,
                           Str(resolveAliasConflict(alias, items).path)),
          !.warnings = Append(@, [text |-> "Alias conflict resolved",
                                  alias |-> alias, resolved |-> alias,
                                  path |-> resolveAliasConflict(alias, items).path])]

\* The entry and the warning of a group in conflict.
AddResolved(acc, alias, resolved) ==
  [acc EXCEPT
     !.mappings = Set(@, <<marker>> \o resolved.alias, Str(resolved.path)),
     !.warnings = Append(@, [text |-> "Alias conflict resolved",
                             alias |-> alias,
                             resolved |-> resolved.alias,
                             path |-> resolved.path])]

\* One turn of the loop over aliasGroups.
ProcessGroup(acc, alias, items) ==
  IF Len(items) = 1
  THEN LET item == items[1]
       IN  [acc EXCEPT
              !.mappings = Set(@, <<marker>> \o alias, Str(item.relativePath)),
              !.suggestions =
                 IF item.depth > 2
                 THEN Append(@, [text |-> "Consider using a shorter alias for deep path",
                                 path |-> item.relativePath])
                 ELSE @]
  ELSE AddResolved(acc, alias, resolveAliasConflict(alias, items))

RECURSIVE ProcessGroups(_, _, _)
ProcessGroups(acc, discovered, aliases) ==
  IF aliases = <<>> THEN acc
  ELSE ProcessGroups(ProcessGroup(acc, aliases[1], AliasGroup(discovered, aliases[1])),
                     discovered, Tail(aliases))

\* ok is FALSE when discoverPaths throws.
PathMapperResult(found, built) ==
  [ok          |-> found.ok,
   mappings    |-> IF found.ok THEN built.mappings ELSE Obj(<<>>),
   discovered  |-> found.value,
   suggestions |-> IF found.ok THEN built.suggestions ELSE <<>>,
   warnings    |-> IF found.ok THEN built.warnings ELSE <<>>,
   errors      |-> <<>>]

GroupAndResolve(found) ==
  PathMapperResult(found,
                   ProcessGroups([mappings |-> Obj(<<>>), suggestions |-> <<>>,
                                  warnings |-> <<>>],
                                 found.value, AliasOrder(found.value)))

generateMappings(fault) == GroupAndResolve(discoverPaths(fault))

(***************************************************************************)
(* tsconfig.json on disk                                                   *)
(***************************************************************************)
NoFile  == [t |-> "nofile", v |-> <<>>]   \* there is no tsconfig.json
BadJson == [t |-> "badjson", v |-> <<>>]  \* the file is not JSON: readTsConfig throws

\* tsConfigPath || path.join(this.rootDir, "tsconfig.json")
configPath == pathJoin(rootDir, tsconfigName)

\* An absolute path as a string.
PathString(p) == <<sep>> \o Join(p)

\* Mutant: the promise of fs.access is not awaited, every path "exists".
Exists_NotAwaited(p) == TRUE

\* fs.access / fs.existsSync
Exists(p) ==
  \/ p \in files \cup dirs
  \/ \E k \in 0..Len(rootDir) : p = SubSeq(rootDir, 1, k)
  \/ p = configPath /\ config.t # "nofile"

\* Mutant: the result of existsSync is negated.
validatePathMapping_Negated(mapping, root) == ~Exists(pathResolve(root, mapping))

\* FileUtils.validatePathMapping
validatePathMapping(mapping, root) == Exists(pathResolve(root, mapping))

(***************************************************************************)
(* PathMapper.findBetterMapping and PathMapper.validateExistingMappings    *)
(***************************************************************************)
\* Mutant: a record whose relativePath is as long as the path counts too.
findBetterMapping_NotStrict(alias, currentPath, discovered) ==
  IF \E i \in 1..Len(discovered) :
       /\ pathResolve(rootDir, discovered[i].relativePath) = pathResolve(rootDir, currentPath)
       /\ Len(discovered[i].relativePath) <= Len(currentPath)
  THEN Str(discovered[CHOOSE i \in 1..Len(discovered) :
             /\ pathResolve(rootDir, discovered[i].relativePath)
                  = pathResolve(rootDir, currentPath)
             /\ Len(discovered[i].relativePath) <= Len(currentPath)].relativePath)
  ELSE Null

findBetterMapping(alias, currentPath, discovered) ==
  LET targetPath == pathResolve(rootDir, currentPath)
      Better(i)  == /\ pathResolve(rootDir, discovered[i].relativePath) = targetPath
                    /\ Len(discovered[i].relativePath) < Len(currentPath)
  IN  IF \E i \in 1..Len(discovered) : Better(i)
      THEN Str(discovered[CHOOSE i \in 1..Len(discovered) :
                            Better(i) /\ \A j \in 1..(i - 1) : ~Better(j)].relativePath)
      ELSE Null

Issue(type, text, alias, detail, path, suggestion) ==
  [type |-> type,
   message |-> [text |-> text, alias |-> alias, detail |-> detail],
   path |-> path,
   suggestion |-> suggestion]

\* if (betterMapping) issues.push({type: "info", ...})
ReportBetter(acc, mappingPath, better) ==
  [acc EXCEPT
     !.io = @ \o <<"validatePathMapping", "discoverPaths">>,
     !.issues =
        IF Truthy(better)
        THEN Append(@, Issue("info", "Consider using shorter path", <<>>,
                             better.v, mappingPath, better))
        ELSE @]

\* The else branch of the loop body: found is what discoverPaths gave.
CheckImprovement(acc, alias, mappingPath, found) ==
  IF ~found.ok
  THEN [acc EXCEPT !.threw = TRUE,
                   !.io = @ \o <<"validatePathMapping", "discoverPaths">>]
  ELSE ReportBetter(acc, mappingPath, findBetterMapping(alias, mappingPath, found.value))

\* One turn of the loop over Object.entries(pathMappings); acc.threw is set
\* when the turn throws (path.resolve on a value that is no string, or
\* discoverPaths), which ends the loop.
ValidateEntry(acc, entry, fault) ==
  LET alias       == entry[1]
      mapping     == entry[2]
      mappingPath == IF mapping.t = "arr"
                     THEN (IF Len(mapping.v) > 0 THEN mapping.v[1] ELSE Undefined)
                     ELSE mapping
  IN  IF acc.threw THEN acc
      ELSE IF mappingPath.t # "str"
      THEN [acc EXCEPT !.threw = TRUE, !.io = Append(@, "validatePathMapping")]
      ELSE IF ~validatePathMapping(mappingPath.v, rootDir)
      THEN [acc EXCEPT
              !.io = Append(@, "validatePathMapping"),
              !.issues = Append(@, Issue("error", "Invalid path mapping", alias,
                                         mappingPath.v, mappingPath.v,
                                         Str(<<"R","e","m","o","v","e"," ","o","r"," ","f","i","x"," ","t","h","i","s"," ","m","a","p","p","i","n","g">>)))]
      ELSE CheckImprovement(acc, alias, mappingPath.v, discoverPaths(fault))

RECURSIVE ValidateEntries(_, _, _)
ValidateEntries(acc, entries, fault) ==
  IF entries = <<>> THEN acc
  ELSE ValidateEntries(ValidateEntry(acc, entries[1], fault), Tail(entries), fault)

\* Mutant: every issue counts against validity.
IsError_AnyIssue(issue) == issue.type \in {"error", "info"}

IsError(issue) == issue.type = "error"

\* [isValid, issues, io]; the operation never throws.
notFound ==
  Issue("error", "tsconfig.json not found", <<>>, <<>>, PathString(configPath), Undefined)

failed ==
  Issue("error", "Failed to validate mappings", <<>>, <<>>, PathString(configPath),
        Undefined)

\* x?.paths
OptionalPaths(compilerOptions) ==
  IF compilerOptions.t \in {"undef", "null"} THEN Undefined
  ELSE Get(compilerOptions, kPaths)

\* paths || {}
OrEmpty(paths) == IF Truthy(paths) THEN paths ELSE Obj(<<>>)

\* config.compilerOptions?.paths || {}
pathMappings == OrEmpty(OptionalPaths(Get(config, kCompilerOptions)))

\* The return after the loop, or the catch block when the loop threw.
ValidationResult(done) ==
  IF done.threw
  THEN [isValid |-> FALSE, issues |-> Append(done.issues, failed), io |-> done.io]
  ELSE [isValid |-> Len(SelectSeq(done.issues, IsError)) = 0,
        issues |-> done.issues, io |-> done.io]

validateExistingMappings(fault) ==
  IF ~Exists(configPath)
  THEN [isValid |-> FALSE, issues |-> <<notFound>>, io |-> <<"pathExists">>]
  ELSE IF config.t \in {"badjson", "null"}
  THEN [isValid |-> FALSE, issues |-> <<failed>>,
        io |-> <<"pathExists", "readTsConfig">>]
  ELSE ValidationResult(
         ValidateEntries([issues |-> <<>>, threw |-> FALSE,
                          io |-> <<"pathExists", "readTsConfig">>],
                         OwnEntries(pathMappings), fault))

(***************************************************************************)
(* PathMapper.updateTsConfig                                               *)
(***************************************************************************)
baselineConfig ==
  Obj(<< <<kCompilerOptions,
           Obj(<< <<<<"t","a","r","g","e","t">>, Str(<<"E","S","2","0","2","0">>)>>,
                  <<<<"m","o","d","u","l","e">>, Str(<<"c","o","m","m","o","n","j","s">>)>>,
                  <<<<"s","t","r","i","c","t">>, True>>,
                  <<<<"e","s","M","o","d","u","l","e","I","n","t","e","r","o","p">>, True>>,
                  <<<<"s","k","i","p","L","i","b","C","h","e","c","k">>, True>>,
                  <<<<"f","o","r","c","e","C","o","n","s","i","s","t","e","n","t","C","a","s","i","n","g","I","n","F","i","l","e","N","a","m","e","s">>, True>> >>)>> >>)

\* Mutant: the merge flag is not looked at.
MergedPaths_AlwaysMerge(oldPaths, newMappings, merge) ==
  IF Truthy(oldPaths) THEN SetAll(SetAll(Obj(<<>>), OwnEntries(oldPaths)),
                                  OwnEntries(newMappings))
  ELSE newMappings

\* The merge condition and the new paths node.
MergedPaths(oldPaths, newMappings, merge) ==
  IF merge /\ Truthy(oldPaths) THEN Spread(oldPaths, newMappings) ELSE newMappings

\* Mutant: a fresh document with nothing but the paths node is written.
UpdatedDocument_Fresh(doc, newMappings, merge) ==
  Obj(<< <<kCompilerOptions,
           Obj(<< <<kPaths,
                    MergedPaths(IF Truthy(Get(doc, kCompilerOptions))
                                THEN Get(Get(doc, kCompilerOptions), kPaths)
                                ELSE Undefined,
                                newMappings, merge)>> >>)>> >>)

\* The document handed to writeTsConfig, from the document read (or the
\* baseline).
UpdatedDocument(doc, newMappings, merge) ==
  LET withOptions == IF Truthy(Get(doc, kCompilerOptions)) THEN doc
                     ELSE Set(doc, kCompilerOptions, Obj(<<>>))
      options     == Get(withOptions, kCompilerOptions)
  IN  Set(withOptions, kCompilerOptions,
          Set(options, kPaths, MergedPaths(Get(options, kPaths), newMappings, merge)))

\* Mutant: when the file cannot be read the baseline is taken and written.
updateTsConfig_WriteOnReadFailure(newMappings, merge, fault) ==
  [ok |-> TRUE,
   written |-> Serialize(UpdatedDocument(IF config.t = "obj" THEN config
                                         ELSE baselineConfig,
                                         newMappings, merge)),
   io |-> IF Exists(configPath)
          THEN <<"pathExists", "readTsConfig", "writeTsConfig">>
          ELSE <<"pathExists", "writeTsConfig">>]

\* Mutant: the file is read without a look whether it exists.
updateTsConfig_ReadFirst(newMappings, merge, fault) ==
  IF config.t # "obj"
  THEN [ok |-> FALSE, written |-> config, io |-> <<"readTsConfig">>]
  ELSE [ok |-> TRUE,
        written |-> Serialize(UpdatedDocument(config, newMappings, merge)),
        io |-> <<"readTsConfig", "writeTsConfig">>]

\* [ok, written, io]: ok is FALSE when the operation throws "Failed to
\* update tsconfig.json"; written is the new content of the file, or the
\* old one when nothing was written.
updateTsConfig(newMappings, merge, fault) ==
  LET present == Exists(configPath)
      doc     == IF present THEN config ELSE baselineConfig
      ioRead  == IF present THEN <<"pathExists", "readTsConfig">> ELSE <<"pathExists">>
  IN  IF doc.t # "obj"
      THEN [ok |-> FALSE, written |-> config, io |-> ioRead]
      ELSE IF fault.kind = "write"
      THEN [ok |-> FALSE, written |-> config, io |-> Append(ioRead, "writeTsConfig")]
      ELSE [ok |-> TRUE,
            written |-> Serialize(UpdatedDocument(doc, newMappings, merge)),
            io |-> Append(ioRead, "writeTsConfig")]

(***************************************************************************)
(* PathMapper.getSuggestions                                               *)
(***************************************************************************)
commonDirs == << <<"c","o","m","p","o","n","e","n","t","s">>, <<"u","t","i","l","s">>, <<"t","y","p","e","s">>, <<"s","e","r","v","i","c","e","s">>, <<"h","o","o","k","s">>, <<"p","a","g","e","s">> >>

\* analyzeImportPatterns is a stub that returns [].
analyzeImportPatterns == <<>>

Suggestions(found, frequent, present) ==
  [ok |-> found.ok,
   suggestions |->
     IF found.ok
     THEN [i \in 1..Len(frequent) |->
             [text |-> "Consider creating alias for", path |-> frequent[i].pattern]]
          \o [i \in 1..Len(present) |->
                [text |-> "Consider adding alias for common directory",
                 path |-> present[i]]]
     ELSE <<>>]

getSuggestions(fault) ==
  Suggestions(discoverPaths(fault),
              SelectSeq(analyzeImportPatterns, LAMBDA pattern : pattern.count > 5),
              SelectSeq(commonDirs,
                        LAMBDA dir : Exists(pathJoin(rootDir, <<"s","r","c","/">> \o dir))))

(***************************************************************************)
(* The state machine.  Every action is one call of a public operation on   *)
(* a freshly constructed PathMapper, as the exported wrappers make it;     *)
(* last records what the call was given and what it returned, until the    *)
(* caller takes the result (Return).                                       *)
(***************************************************************************)
Blank ==
  [op |-> "none", ok |-> TRUE, fault |-> NoFault,
   newMappings |-> Obj(<<>>), merge |-> FALSE, again |-> FALSE, before |-> NoFile,
   discovered |-> <<>>, tsFiles |-> <<>>, directories |-> <<>>,
   mappings |-> Obj(<<>>), suggestions |-> <<>>, warnings |-> <<>>, errors |-> <<>>,
   isValid |-> FALSE, issues |-> <<>>, io |-> <<>>,
   filePath |-> <<>>, alias |-> <<>>]

Idle == last.op = "none"

\* The wrapper returns: the caller has the result, the mapper is dropped.
Return ==
  /\ ~Idle
  /\ last' = Blank
  /\ UNCHANGED <<files, dirs, maxDepth, config, listing>>

ListerFaults == {f \in Faults : f.kind # "write"}

Discovery(fault, r) ==
  [Blank EXCEPT !.op = "discoverPaths", !.ok = r.ok, !.fault = fault,
                !.before = config, !.discovered = r.value,
                !.tsFiles = r.tsFiles, !.directories = r.directories]

DiscoverPaths ==
  \E fault \in ListerFaults :
    /\ Idle
    /\ last' = Discovery(fault, discoverPaths(fault))
    /\ UNCHANGED <<files, dirs, maxDepth, config, listing>>

Generation(fault, r) ==
  [Blank EXCEPT !.op = "generateMappings", !.ok = r.ok, !.fault = fault,
                !.before = config, !.discovered = r.discovered,
                !.mappings = r.mappings, !.suggestions = r.suggestions,
                !.warnings = r.warnings, !.errors = r.errors]

GenerateMappings ==
  \E fault \in ListerFaults :
    /\ Idle
    /\ last' = Generation(fault, generateMappings(fault))
    /\ UNCHANGED <<files, dirs, maxDepth, config, listing>>

Suggestion(fault, r) ==
  [Blank EXCEPT !.op = "getSuggestions", !.ok = r.ok, !.fault = fault,
                !.before = config, !.suggestions = r.suggestions]

GetSuggestions ==
  \E fault \in ListerFaults :
    /\ Idle
    /\ last' = Suggestion(fault, getSuggestions(fault))
    /\ UNCHANGED <<files, dirs, maxDepth, config, listing>>

ValidateFaults == {f \in ListerFaults : f.kind \in {"none", "glob"} \/ f.at = rootDir}

Validation(fault, r) ==
  [Blank EXCEPT !.op = "validateExistingMappings", !.fault = fault,
                !.before = config, !.isValid = r.isValid,
                !.issues = r.issues, !.io = r.io]

ValidateExistingMappings ==
  \E fault \in ValidateFaults :
    /\ Idle
    /\ last' = Validation(fault, validateExistingMappings(fault))
    /\ UNCHANGED <<files, dirs, maxDepth, config, listing>>

(***************************************************************************)
(* Bounds and the initial states                                           *)
(***************************************************************************)
MaxFiles == 3           \* files in the tree
MaxEmptyDirs == 1       \* directories of the tree that hold no file
MaxValidatedFiles == 1  \* files in the tree of a validation
MaxTableSize == 2       \* entries of a paths table given to or found by an operation

Absolute(rel) == rootDir \o rel

TreeInit(maxFiles) ==
  \E fs \in SUBSET Range(FileUniverse), ds \in SUBSET Range(DirUniverse) :
    /\ Cardinality(fs) <= maxFiles
    /\ Cardinality(ds) <= MaxEmptyDirs
    /\ files = {Absolute(f) : f \in fs}
    /\ dirs = {Absolute(d) : d \in ds \cup UNION {Ancestors(e) : e \in fs \cup ds}}

\* maxDepth as given to the constructor: 0 stands for "not given".
MaxDepthOptions == {0, 2}

\* The sequences of at most n of the entries.
RECURSIVE TablesOver(_, _)
TablesOver(entries, n) ==
  IF n = 0 THEN {<<>>}
  ELSE LET shorter == TablesOver(entries, n - 1)
       IN  shorter \cup
           {Append(t, e) : t \in {u \in shorter : Len(u) = n - 1}, e \in entries}

DistinctKeys(t) == \A i, j \in 1..Len(t) : i # j => t[i][1] # t[j][1]

\* The objects of at most MaxTableSize of the entries, their keys distinct.
Tables(entries) ==
  {Obj(t) : t \in {u \in TablesOver(entries, MaxTableSize) : DistinctKeys(u)}}

\* A tsconfig.json with an "include" list, one compiler option and a paths node.
WithPaths(paths) ==
  Obj(<< <<kInclude, Arr(<<Str(<<"s","r","c">>)>>)>>,
         <<kCompilerOptions, Obj(<< <<<<"s","t","r","i","c","t">>, True>>, <<kPaths, paths>> >>)>> >>)

Init ==
  /\ TreeInit(MaxFiles)
  /\ maxDepth \in MaxDepthOptions
  /\ config = NoFile
  /\ listing \in ListingOrders
  /\ last = Blank

Next == DiscoverPaths \/ GenerateMappings \/ GetSuggestions \/ Return

Spec == Init /\ [][Next]_vars

(***************************************************************************)
(* Validation of the paths table of a tsconfig.json                        *)
(***************************************************************************)
ValidatedEntries ==
  { <<<<"@","s">>, Str(<<".","/","s","r","c">>)>>,
    <<<<"@","t">>, Str(<<"s","r","c">>)>>,
    <<<<"@","n">>, Str(<<"n","o","p","e">>)>>,
    <<<<"@","x">>, Arr(<<Str(<<".","/","x",".","t","s">>), Str(<<"n","o","p","e">>)>>)>> }

ValidatedConfigs ==
  {NoFile, BadJson, Null, Obj(<<>>)} \cup {WithPaths(t) : t \in Tables(ValidatedEntries)}

InitValidate ==
  /\ TreeInit(MaxValidatedFiles)
  /\ maxDepth = 0
  /\ config \in ValidatedConfigs
  /\ listing \in ListingOrders
  /\ last = Blank

NextValidate == ValidateExistingMappings \/ Return

SpecValidate == InitValidate /\ [][NextValidate]_vars

(***************************************************************************)
(* Updates of tsconfig.json.  updateTsConfig returns nothing: the calls    *)
(* follow one another, last keeps the latest.                              *)
(***************************************************************************)
UpdateFaults == {f \in Faults : f.kind \in {"none", "write"}}

Update(newMappings, merge, fault, r) ==
  /\ last' = [Blank EXCEPT !.op = "updateTsConfig", !.ok = r.ok, !.fault = fault,
                           !.newMappings = newMappings, !.merge = merge,
                           !.again = /\ last.op = "updateTsConfig"
                                     /\ last.ok
                                     /\ last.newMappings = newMappings
                                     /\ last.merge = merge,
                           !.before = config, !.io = r.io]
  /\ config' = r.written

UpdateTsConfig(newMappings, merge) ==
  \E fault \in UpdateFaults :
    /\ Update(newMappings, merge, fault, updateTsConfig(newMappings, merge, fault))
    /\ UNCHANGED <<files, dirs, maxDepth, listing>>

\* The entries of the tables handed to updateTsConfig.
NewEntries ==
  { <<<<"@","a">>, Str(<<"a">>)>>,
    <<<<"@","b">>, Str(<<"s","r","c","/","b">>)>>,
    <<<<"@","c">>, Str(<<"c">>)>> }

\* The entries of the paths node found in tsconfig.json at the start.
OldEntries ==
  { <<<<"@","a">>, Str(<<"o","l","d">>)>>,
    <<<<"@","d">>, Str(<<"o","l","d">>)>> }

MergedConfigs ==
  {NoFile, BadJson, Null, Obj(<<>>), WithPaths(Null)}
    \cup {WithPaths(t) : t \in Tables(OldEntries)}

InitMerge ==
  /\ files = {}
  /\ dirs = {}
  /\ maxDepth = 0
  /\ config \in MergedConfigs
  /\ listing = "ascending"
  /\ last = Blank

NextMerge ==
  \E newMappings \in Tables(NewEntries), merge \in BOOLEAN :
    UpdateTsConfig(newMappings, merge)

SpecMerge == InitMerge /\ [][NextMerge]_vars

(***************************************************************************)
(* The command line: "generate" with --merge (the default) or --no-merge.  *)
(***************************************************************************)
CliFaults == {f \in Faults : f.kind \in {"none", "glob", "write"}}

\* The command ends without a call of updateTsConfigMappings: the mappings
\* could not be generated, or options.merge is false.
NotUpdated(merge, fault, result) ==
  /\ last' = [Blank EXCEPT !.op = "generate", !.ok = result.ok, !.fault = fault,
                           !.merge = merge, !.before = config,
                           !.discovered = result.discovered,
                           !.mappings = result.mappings]
  /\ config' = config

\* await updateTsConfigMappings(result, options.tsconfig, true, ...)
UpdatedByCommand(merge, fault, result, r) ==
  /\ last' = [Blank EXCEPT !.op = "generate", !.ok = r.ok, !.fault = fault,
                           !.merge = merge, !.before = config,
                           !.discovered = result.discovered,
                           !.mappings = result.mappings, !.io = r.io]
  /\ config' = r.written

\* The action of the generate command, from the generated result on.
Generate(merge, fault, result) ==
  IF result.ok /\ merge # FALSE
  THEN UpdatedByCommand(merge, fault, result,
                        updateTsConfig(result.mappings, TRUE, fault))
  ELSE NotUpdated(merge, fault, result)

GenerateCommand ==
  \E merge \in BOOLEAN, fault \in CliFaults :
    /\ Idle
    /\ Generate(merge, fault, generateMappings(fault))
    /\ UNCHANGED <<files, dirs, maxDepth, listing>>

\* The process exits.
Exit ==
  /\ ~Idle
  /\ last' = Blank
  /\ UNCHANGED <<files, dirs, maxDepth, config, listing>>

CliConfigs == {NoFile} \cup {WithPaths(t) : t \in Tables(OldEntries)}

InitCli ==
  /\ TreeInit(MaxValidatedFiles)
  /\ maxDepth = 0
  /\ config \in CliConfigs
  /\ listing \in ListingOrders
  /\ last = Blank

NextCli == GenerateCommand \/ Exit

SpecCli == InitCli /\ [][NextCli]_vars

(***************************************************************************)
(* FileUtils.generateAlias applied to one path below rootDir.              *)
(***************************************************************************)
MaxSegments == 2        \* segments of a path handed to generateAlias

\* The names a segment of such a path may have.
SegmentNames ==
  { <<"x",".","t","s">>, <<"1","a",".","t","s">>, <<"-","a",".","t","s">>,
    <<"m","y","-","f","i","l","e","_","n","a","m","e",".","t","s">>,
    <<".","e","n","v">>, <<"_",".","t","s">>, <<"a">>, <<"9">>,
    <<"Y","-","z",".","t","s","x">>, <<"$",".","t","s">>,
    <<"a"," ","b",".","t","s">>, <<"A",".","t","s">>, <<"x",".","d",".","t","s">> }

\* The paths of 1..n segments.
RECURSIVE PathsOver(_)
PathsOver(n) ==
  IF n = 0 THEN {}
  ELSE {<<name>> : name \in SegmentNames}
         \cup {Append(q, name) : q \in PathsOver(n - 1), name \in SegmentNames}

GenerateAlias ==
  \E filePath \in files :
    /\ Idle
    /\ last' = [Blank EXCEPT !.op = "generateAlias", !.filePath = filePath,
                             !.alias = generateAlias(filePath, rootDir)]
    /\ UNCHANGED <<files, dirs, maxDepth, config, listing>>

InitAlias ==
  /\ \E rel \in PathsOver(MaxSegments) : files = {Absolute(rel)}
  /\ dirs = {}
  /\ maxDepth = 0
  /\ config = NoFile
  /\ listing = "ascending"
  /\ last = Blank

NextAlias == GenerateAlias \/ Return

SpecAlias == InitAlias /\ [][NextAlias]_vars

(***************************************************************************)
(* Properties                                                              *)
(***************************************************************************)
Generated == last.op = "generateMappings" /\ last.ok
Discovered == last.op = "discoverPaths" /\ last.ok
Validated == last.op = "validateExistingMappings"
Updated == last.op = "updateTsConfig" /\ last.ok

AliasesOf(discovered) == {discovered[i].alias : i \in 1..Len(discovered)}

\* C1: generateMappings never drops a discovered alias: the keys of the
\* returned table are exactly the aliases of the discovered records, each
\* prefixed with "@".
C1_NoAliasDropped ==
  Generated =>
    Keys(last.mappings) = {<<marker>> \o a : a \in AliasesOf(last.discovered)}

\* A table was generated from records of several aliases, one of them
\* shared by two records.
C1_Witness ==
  /\ Generated
  /\ Cardinality(AliasesOf(last.discovered)) >= 2
  /\ \E a \in AliasesOf(last.discovered) : Len(AliasGroup(last.discovered, a)) >= 2

Mixed(group) ==
  /\ \E i \in 1..Len(group) : group[i].type = "file"
  /\ \E i \in 1..Len(group) : group[i].type = "directory"

FileOnly(group) == \A i \in 1..Len(group) : group[i].type = "file"

\* The path the generated table gives to an alias.
WinnerOf(alias) == Get(last.mappings, <<marker>> \o alias).v

WinnerIsFile(group, winner) ==
  \E i \in 1..Len(group) : group[i].type = "file" /\ group[i].relativePath = winner

\* C2 as claimed: in a group of two or more records with files and
\* directories the winner is a file record; in a group of files alone the
\* relativePath of the winner is strictly shorter than that of every other
\* record of the group.
C2_StrictlyShortest ==
  Generated =>
    \A a \in AliasesOf(last.discovered) :
      LET group == AliasGroup(last.discovered, a)
      IN  Len(group) >= 2 =>
            /\ Mixed(group) => WinnerIsFile(group, WinnerOf(a))
            /\ FileOnly(group) =>
                 \E i \in 1..Len(group) :
                   /\ group[i].relativePath = WinnerOf(a)
                   /\ \A j \in 1..Len(group) :
                        j # i => Len(WinnerOf(a)) < Len(group[j].relativePath)

\* C2 amended: in a group with files and directories the winner is a file
\* record; in a group of files alone no record of the group has a shorter
\* relativePath than the winner (records of the same length may exist).
C2_NoneShorter ==
  Generated =>
    \A a \in AliasesOf(last.discovered) :
      LET group == AliasGroup(last.discovered, a)
      IN  Len(group) >= 2 =>
            /\ Mixed(group) => WinnerIsFile(group, WinnerOf(a))
            /\ FileOnly(group) =>
                 /\ WinnerIsFile(group, WinnerOf(a))
                 /\ \A j \in 1..Len(group) :
                      Len(WinnerOf(a)) <= Len(group[j].relativePath)

\* A generated table with a group in which a directory has a shorter path
\* than the file that wins.
C2_Witness ==
  /\ Generated
  /\ \E a \in AliasesOf(last.discovered) :
       LET group == AliasGroup(last.discovered, a)
       IN  /\ Mixed(group)
           /\ \E i \in 1..Len(group) :
                /\ group[i].type = "directory"
                /\ Len(group[i].relativePath) < Len(WinnerOf(a))

\* The order the records are to have: depth ascending, then alias ascending.
SameKey(a, b) == a.depth = b.depth /\ localeCompare(a.alias, b.alias) = 0

NotAfter(a, b) ==
  \/ a.depth < b.depth
  \/ a.depth = b.depth /\ localeCompare(a.alias, b.alias) <= 0

\* C3 as claimed: the result of discoverPaths is strictly ordered by depth,
\* then alias: of two records the earlier one compares less, and no two
\* records compare equal.
C3_StrictOrder ==
  Discovered =>
    \A i, j \in 1..Len(last.discovered) :
      i < j => /\ NotAfter(last.discovered[i], last.discovered[j])
               /\ ~SameKey(last.discovered[i], last.discovered[j])

\* The place of a record in the unsorted list: the files as listed, then
\* the directories as listed.
ListedAt(record) ==
  LET listed == last.tsFiles \o last.directories
  IN  CHOOSE k \in 1..Len(listed) : listed[k] = record.path

\* C3 amended: in the result of discoverPaths no record comes after one
\* that compares greater by depth, then alias; records of equal depth and
\* alias occur, and they stay in the order in which they were listed
\* (files before directories).
C3_SortedStable ==
  Discovered =>
    \A i, j \in 1..Len(last.discovered) :
      i < j =>
        /\ NotAfter(last.discovered[i], last.discovered[j])
        /\ SameKey(last.discovered[i], last.discovered[j]) =>
             ListedAt(last.discovered[i]) < ListedAt(last.discovered[j])

\* A result with two records of one depth and different aliases that the
\* sort had to swap, and two records of equal depth and alias.
C3_Witness ==
  /\ Discovered
  /\ \E i, j \in 1..Len(last.discovered) :
       /\ i < j
       /\ last.discovered[i].depth = last.discovered[j].depth
       /\ last.discovered[i].alias # last.discovered[j].alias
       /\ ListedAt(last.discovered[i]) > ListedAt(last.discovered[j])
  /\ \E i, j \in 1..Len(last.discovered) :
       i < j /\ SameKey(last.discovered[i], last.discovered[j])

\* The paths node of a document, Undefined when there is none.
PathsOf(doc) ==
  IF doc.t = "obj" /\ Get(doc, kCompilerOptions).t = "obj"
  THEN Get(Get(doc, kCompilerOptions), kPaths)
  ELSE Undefined

\* C4: when updateTsConfig has applied a table with merge = true, applying
\* the same table with merge = true once more leaves the document as it is.
C4_MergeIdempotent ==
  [][(/\ Updated /\ last.merge
      /\ last'.op = "updateTsConfig" /\ last'.ok /\ last'.merge
      /\ last'.newMappings = last.newMappings)
     => config' = config]_vars

\* A table was merged a second time into a document that holds more
\* entries than the table.
C4_Witness ==
  /\ Updated /\ last.merge /\ last.again
  /\ Keys(last.newMappings) # {}
  /\ Keys(PathsOf(config)) \ Keys(last.newMappings) # {}

\* C5: after updateTsConfig with merge = false the paths node of the
\* document is the new table: the same keys in the same order with the same
\* values, nothing left of the node that was there.
C5_ReplaceExact ==
  (Updated /\ ~last.merge) => PathsOf(config) = last.newMappings

\* A document whose paths node held a key that the new table lacks was
\* updated with merge = false.
C5_Witness ==
  /\ Updated /\ ~last.merge
  /\ Keys(PathsOf(last.before)) \ Keys(last.newMappings) # {}
  /\ Keys(last.newMappings) # {}

\* The document updateTsConfig starts from.
StartOf(before) == IF before.t = "nofile" THEN baselineConfig ELSE before

\* C6: after updateTsConfig with merge = true on a document with a paths
\* node, the node has the old and the new keys, every new key with the new
\* value and every other old key with its old value; without a paths node
\* the result is the new table.
C6_MergeUnion ==
  (Updated /\ last.merge) =>
    LET old == PathsOf(StartOf(last.before))
        new == last.newMappings
        now == PathsOf(config)
    IN  IF Truthy(old)
        THEN /\ Keys(now) = Keys(old) \cup Keys(new)
             /\ \A k \in Keys(new) : Get(now, k) = Get(new, k)
             /\ \A k \in Keys(old) \ Keys(new) : Get(now, k) = Get(old, k)
        ELSE now = new

\* A merge in which one key of the new table replaced an old value and one
\* old key was kept.
C6_Witness ==
  /\ Updated /\ last.merge
  /\ LET old == PathsOf(StartOf(last.before))
         new == last.newMappings
     IN  /\ \E k \in Keys(old) \cap Keys(new) : Get(old, k) # Get(new, k)
         /\ Keys(old) \ Keys(new) # {}
         /\ Keys(new) \ Keys(old) # {}

\* C7: isValid is true exactly when no issue of the result has type
\* "error"; an issue of type "info" leaves isValid true.
C7_ValidIffNoError ==
  Validated =>
    (last.isValid <=> \A i \in 1..Len(last.issues) : last.issues[i].type # "error")

\* A validation that returned an info issue and isValid = true.
C7_Witness ==
  /\ Validated
  /\ last.isValid
  /\ \E i \in 1..Len(last.issues) : last.issues[i].type = "info"

\* The entries of the paths node that validateExistingMappings walks.
ValidatedTable ==
  IF Truthy(PathsOf(config)) THEN OwnEntries(PathsOf(config)) ELSE <<>>

\* Array.isArray(mapping) ? mapping[0] : mapping, for the tables of the model.
MappingPathOf(entry) == IF entry[2].t = "arr" THEN entry[2].v[1].v ELSE entry[2].v

\* The target of an entry is on disk under the root.
TargetExists(entry) == Exists(pathResolve(rootDir, MappingPathOf(entry)))

ErrorsFor(entry) ==
  {i \in 1..Len(last.issues) :
     last.issues[i].type = "error" /\ last.issues[i].message.alias = entry[1]}

InfosFor(entry) ==
  {i \in 1..Len(last.issues) :
     last.issues[i].type = "info" /\ last.issues[i].path = MappingPathOf(entry)}

ReportedAsClaimed(entry) ==
  IF TargetExists(entry)
  THEN ErrorsFor(entry) = {}
  ELSE Cardinality(ErrorsFor(entry)) = 1 /\ InfosFor(entry) = {}

BreakAt ==
  LET Breaks(k) == TargetExists(ValidatedTable[k]) /\ last.fault.kind = "glob"
  IN  IF \E k \in 1..Len(ValidatedTable) : Breaks(k)
      THEN CHOOSE k \in 1..Len(ValidatedTable) :
             Breaks(k) /\ \A j \in 1..(k - 1) : ~Breaks(j)
      ELSE Len(ValidatedTable) + 1

IsFailure(issue) ==
  issue.type = "error" /\ issue.message.text = "Failed to validate mappings"

C9_MissingConfig ==
  (Validated /\ config.t = "nofile") =>
    /\ ~last.isValid
    /\ Len(last.issues) = 1
    /\ last.issues[1].type = "error"
    /\ \A i \in 1..Len(last.io) : last.io[i] \notin {"readTsConfig", "discoverPaths"}

\* A validation ran in a tree with files and no tsconfig.json.
C9_Witness ==
  /\ Validated /\ config.t = "nofile"
  /\ files # {}
  /\ last.io = <<"pathExists">>

\* C10 as claimed: discoverPaths returns no partial result.  A failure met
\* while a lister reads or stats the tree makes the call fail, so a result
\* that is returned holds a record for every directory of the tree down to
\* maxDepth levels below rootDir.
C10_NoPartialResult ==
  Discovered =>
    \A d \in dirs :
      Len(d) - Len(rootDir) <= OptionMaxDepth(maxDepth) =>
        \E i \in 1..Len(last.discovered) : last.discovered[i].path = d

\* The aliases shared by two or more records, in the order of their first
\* record.
ConflictAliases(discovered) ==
  SelectSeq(AliasOrder(discovered), LAMBDA a : Len(AliasGroup(discovered, a)) >= 2)

\* C11: alias conflicts never make generateMappings fail: when discovery
\* succeeds a table is returned, and the warnings are one per alias group of
\* two or more records and none for a group of one, in the order in which
\* the aliases first occur in the discovered records; each warning names
\* the alias of its group and the winning path.
C11_OneWarningPerConflict ==
  /\ (last.op = "generateMappings" /\ last.fault.kind # "glob") => last.ok
  /\ Generated =>
       LET conflicts == ConflictAliases(last.discovered)
       IN  /\ Len(last.warnings) = Len(conflicts)
           /\ \A i \in 1..Len(conflicts) :
                /\ last.warnings[i].alias = conflicts[i]
                /\ last.warnings[i].resolved = conflicts[i]
                /\ last.warnings[i].path = WinnerOf(conflicts[i])

\* A table generated from records with two groups in conflict and a group
\* of one record.
C11_Witness ==
  /\ Generated
  /\ Len(ConflictAliases(last.discovered)) >= 2
  /\ \E a \in AliasesOf(last.discovered) : Len(AliasGroup(last.discovered, a)) = 1

Suggested == last.op = "getSuggestions" /\ last.ok

\* C12 as claimed: the list returned by getSuggestions holds every
\* suggestion that generateMappings makes for the same tree (the hints for
\* single records deeper than 2), and one suggestion for each of the common
\* directories that exists under src, and for no other of them.
C12_SuggestCombines ==
  Suggested =>
    /\ \A s \in Range(generateMappings(last.fault).suggestions) :
         s \in Range(last.suggestions)
    /\ \A k \in 1..Len(commonDirs) :
         Exists(pathJoin(rootDir, <<"s","r","c","/">> \o commonDirs[k]))
           <=> [text |-> "Consider adding alias for common directory",
                path |-> commonDirs[k]] \in Range(last.suggestions)

CommandDone == last.op = "generate" /\ last.ok

\* generate --no-merge has written the file and its paths node is the
\* generated table.
ReplacedByCommand ==
  (CommandDone /\ ~last.merge) =>
    /\ "writeTsConfig" \in Range(last.io)
    /\ PathsOf(config) = last.mappings

\* generate --merge has written the union of the old and the generated
\* entries, the generated ones winning.
MergedByCommand ==
  (CommandDone /\ last.merge) =>
    LET old == PathsOf(StartOf(last.before))
        new == last.mappings
        now == PathsOf(config)
    IN  /\ "writeTsConfig" \in Range(last.io)
        /\ Keys(now) = Keys(old) \cup Keys(new)
        /\ \A k \in Keys(new) : Get(now, k) = Get(new, k)
        /\ \A k \in Keys(old) \ Keys(new) : Get(now, k) = Get(old, k)

\* C13 as claimed: after generate --no-merge the configuration file has been
\* written and its paths node equals the generated table; after generate
\* with --merge the file holds the union of the old and the generated
\* entries.
C13_NoMergeReplaces == ReplacedByCommand /\ MergedByCommand

\* The alias as derived from the name, before a letter is ensured.
DerivedOf(filePath) ==
  NameOrBasename(filePath, pathParse(pathRelative(rootDir, filePath)))

StartsWithLetter(str) == str # <<>> /\ IsLetter(str[1])

\* C14: generateAlias returns, for every path, an alias that is not empty
\* and starts with an ASCII letter; when the derived name does not start
\* with a letter the alias is that name with "p" put before it.
C14_AliasStartsWithLetter ==
  last.op = "generateAlias" =>
    /\ StartsWithLetter(last.alias)
    /\ ~StartsWithLetter(DerivedOf(last.filePath)) =>
         last.alias = <<"p">> \o DerivedOf(last.filePath)

\* An alias was generated for a path whose derived name starts with a
\* digit or a dot.
C14_Witness ==
  /\ last.op = "generateAlias"
  /\ DerivedOf(last.filePath) # <<>>
  /\ ~IsLetter(DerivedOf(last.filePath)[1])
  /\ last.alias[1] = "p"

\* The baseline document with the table as its paths node.
BaselineWith(table) ==
  Set(baselineConfig, kCompilerOptions,
      Set(Get(baselineConfig, kCompilerOptions), kPaths, table))

\* C15: without a tsconfig.json, updateTsConfig does not read the file;
\* with either value of merge it writes the baseline document with the new
\* table as its paths node.
C15_BaselineWhenMissing ==
  (last.op = "updateTsConfig" /\ last.before.t = "nofile") =>
    /\ "readTsConfig" \notin Range(last.io)
    /\ "writeTsConfig" \in Range(last.io)
    /\ last.ok => /\ config = BaselineWith(last.newMappings)
                  /\ PathsOf(config) = last.newMappings

\* A table of two entries was written with merge = true where no
\* tsconfig.json was.
C15_Witness ==
  /\ Updated /\ last.merge
  /\ last.before.t = "nofile"
  /\ Cardinality(Keys(last.newMappings)) = 2
  /\ config.t = "obj"

\* The last operation met a structural failure: its discovery run threw,
\* or tsconfig.json could not be read or written.
StructuralFailure ==
  \/ /\ last.op \in {"discoverPaths", "generateMappings", "getSuggestions"}
     /\ last.fault.kind = "glob"
  \/ /\ last.op = "validateExistingMappings"
     /\ \/ last.before.t = "badjson"
        \/ last.fault.kind = "glob" /\ "discoverPaths" \in Range(last.io)
  \/ /\ last.op = "updateTsConfig"
     /\ \/ last.before.t = "badjson"
        \/ last.fault.kind = "write" /\ "writeTsConfig" \in Range(last.io)

\* The last operation returned a result to its caller.
ReturnedResult == last.op # "none" /\ last.ok

\* C16 as claimed: an operation that meets a structural failure aborts and
\* throws; it does not return a result.
C16_FailFast == StructuralFailure => ~ReturnedResult

\* The places in the discovered records of the records of an alias.
PlacesOf(alias) == {i \in 1..Len(last.discovered) : last.discovered[i].alias = alias}

\* Of these, the places of the preferred kind: the files when there is one.
PreferredOf(alias) ==
  IF \E i \in PlacesOf(alias) : last.discovered[i].type = "file"
  THEN {i \in PlacesOf(alias) : last.discovered[i].type = "file"}
  ELSE PlacesOf(alias)

\* Of these, the places of the records with the shortest relativePath.
ShortestOf(alias) ==
  {i \in PreferredOf(alias) :
     \A j \in PreferredOf(alias) :
       Len(last.discovered[i].relativePath) <= Len(last.discovered[j].relativePath)}

\* C17: when several records of the preferred kind of a group have the
\* shortest relativePath, the one that comes first in the output of
\* discoverPaths wins.
C17_EarliestOfTiesWins ==
  Generated =>
    \A a \in AliasesOf(last.discovered) :
      Cardinality(PlacesOf(a)) >= 2 =>
        \E i \in ShortestOf(a) :
          /\ \A j \in ShortestOf(a) : i <= j
          /\ WinnerOf(a) = last.discovered[i].relativePath

\* A table generated from two files of one alias whose relativePaths
\* differ and are of the same, shortest, length.
C17_Witness ==
  /\ Generated
  /\ \E a \in AliasesOf(last.discovered) :
       \E i, j \in ShortestOf(a) :
         /\ i < j
         /\ last.discovered[i].type = "file"
         /\ last.discovered[i].relativePath # last.discovered[j].relativePath
         /\ WinnerOf(a) = last.discovered[i].relativePath

\* The places of the records that are alone under their alias and deeper
\* than 2.
DeepSingles ==
  {i \in 1..Len(last.discovered) :
     /\ PlacesOf(last.discovered[i].alias) = {i}
     /\ last.discovered[i].depth > 2}

\* C18: generateMappings maps the alias of a record that is alone under it
\* to the relativePath of that record, and the suggestions are one for each
\* such record of depth > 2 and no other: none for a shallower record and
\* none for a record of a group in conflict.
C18_DeepSingletonSuggestions ==
  Generated =>
    /\ \A i \in 1..Len(last.discovered) :
         PlacesOf(last.discovered[i].alias) = {i} =>
           WinnerOf(last.discovered[i].alias) = last.discovered[i].relativePath
    /\ Len(last.suggestions) = Cardinality(DeepSingles)
    /\ \A i \in DeepSingles :
         \E j \in 1..Len(last.suggestions) :
           last.suggestions[j] = [text |-> "Consider using a shorter alias for deep path",
                                  path |-> last.discovered[i].relativePath]

\* A table generated from a single deep record, a single record of depth
\* 2 and a group in conflict with a record of depth 3.
C18_Witness ==
  /\ Generated
  /\ DeepSingles # {}
  /\ \E i \in 1..Len(last.discovered) :
       PlacesOf(last.discovered[i].alias) = {i} /\ last.discovered[i].depth = 2
  /\ \E i \in 1..Len(last.discovered) :
       PlacesOf(last.discovered[i].alias) # {i} /\ last.discovered[i].depth > 2
  /\ Len(last.suggestions) = 1

\* The places, in what discoverPaths gives to the validation, of the
\* records that lead where the entry leads by a strictly shorter path.
ShorterFor(entry) ==
  {i \in 1..Len(discoverPaths(last.fault).value) :
     /\ pathResolve(rootDir, discoverPaths(last.fault).value[i].relativePath)
          = pathResolve(rootDir, MappingPathOf(entry))
     /\ Len(discoverPaths(last.fault).value[i].relativePath) < Len(MappingPathOf(entry))}

FirstShorterFor(entry) ==
  discoverPaths(last.fault).value[
    CHOOSE i \in ShorterFor(entry) : \A j \in ShorterFor(entry) : i <= j].relativePath

\* C19: for an entry whose target exists, validateExistingMappings gives an
\* info issue exactly when a discovered record resolves to the target of
\* the entry and has a strictly shorter relativePath; the issue suggests
\* the first such record, and there is at most one info issue per entry.
C19_InfoIffShorter ==
  (Validated /\ config.t = "obj") =>
    \A k \in 1..Len(ValidatedTable) :
      TargetExists(ValidatedTable[k]) =>
        IF ShorterFor(ValidatedTable[k]) = {}
        THEN InfosFor(ValidatedTable[k]) = {}
        ELSE /\ Cardinality(InfosFor(ValidatedTable[k])) = 1
             /\ \A i \in InfosFor(ValidatedTable[k]) :
                  last.issues[i].suggestion = Str(FirstShorterFor(ValidatedTable[k]))

\* A validation of two entries whose targets exist: one got an info issue,
\* the other, whose path is as short as the record, got none.
C19_Witness ==
  /\ Validated /\ config.t = "obj" /\ last.isValid
  /\ \E k \in 1..Len(ValidatedTable) :
       /\ TargetExists(ValidatedTable[k])
       /\ Cardinality(InfosFor(ValidatedTable[k])) = 1
  /\ \E k \in 1..Len(ValidatedTable) :
       /\ TargetExists(ValidatedTable[k])
       /\ InfosFor(ValidatedTable[k]) = {}

\* The number of path separators in a string.
Separators(str) == Cardinality({i \in 1..Len(str) : str[i] = sep})

\* The places in the result of discoverPaths of the records of a path.
RecordsOf(path, type) ==
  {i \in 1..Len(last.discovered) :
     /\ last.discovered[i].path = path
     /\ last.discovered[i].type = type
     /\ last.discovered[i].relativePath = pathRelative(rootDir, path)}

\* C20: the result of discoverPaths has exactly one record, of type file,
\* for every listed file and exactly one, of type directory, for every
\* listed directory, and no other record; the depth of every record is the
\* number of path separators in its relativePath.
C20_OneRecordPerListed ==
  Discovered =>
    /\ Len(last.discovered) = Len(last.tsFiles) + Len(last.directories)
    /\ \A k \in 1..Len(last.tsFiles) :
         Cardinality(RecordsOf(last.tsFiles[k], "file")) = 1
    /\ \A k \in 1..Len(last.directories) :
         Cardinality(RecordsOf(last.directories[k], "directory")) = 1
    /\ \A i \in 1..Len(last.discovered) :
         last.discovered[i].depth = Separators(last.discovered[i].relativePath)

\* A result with two files and two directories, one record three levels
\* deep, in another order than the listers gave.
C20_Witness ==
  /\ Discovered
  /\ Len(last.tsFiles) >= 2
  /\ Len(last.directories) >= 2
  /\ \E i \in 1..Len(last.discovered) : last.discovered[i].depth = 3
  /\ \E i \in 1..Len(last.discovered) :
       last.discovered[i].path # (last.tsFiles \o last.directories)[i]

\* The places of a call in the I/O calls of the last operation.
CallsOf(name) == {i \in 1..Len(last.io) : last.io[i] = name}

\* C21: one run of updateTsConfig writes tsconfig.json at most once, and
\* only after the existence check and, when the file exists, after it was
\* read; when the file cannot be read nothing is written and its content
\* stays as it was.
C21_WriteOnceAfterRead ==
  last.op = "updateTsConfig" =>
    /\ Cardinality(CallsOf("writeTsConfig")) <= 1
    /\ \A w \in CallsOf("writeTsConfig") :
         /\ \E e \in CallsOf("pathExists") : e < w
         /\ last.before.t # "nofile" =>
              /\ last.before.t # "badjson"
              /\ \E r \in CallsOf("readTsConfig") : r < w
    /\ last.before.t = "badjson" =>
         /\ ~last.ok
         /\ CallsOf("writeTsConfig") = {}
         /\ config = last.before

\* An update with a table of entries met a tsconfig.json that is not JSON
\* and failed after the read.
C21_Witness ==
  /\ last.op = "updateTsConfig" /\ ~last.ok
  /\ last.before.t = "badjson"
  /\ Keys(last.newMappings) # {}
  /\ last.io = <<"pathExists", "readTsConfig">>

\* Every key of the old object but the excepted one has its old value in
\* the new object.
KeptBut(old, new, excepted) ==
  \A k \in Keys(old) \ {excepted} : k \in Keys(new) /\ Get(new, k) = Get(old, k)

\* C22: updateTsConfig changes the paths node alone: with either value of
\* merge, every top-level key of the document read but compilerOptions, and
\* every key of its compilerOptions but paths, is in the written document
\* with the value it had.
C22_OnlyPathsChanged ==
  (Updated /\ last.before.t = "obj") =>
    /\ KeptBut(last.before, config, kCompilerOptions)
    /\ Get(last.before, kCompilerOptions).t = "obj" =>
         KeptBut(Get(last.before, kCompilerOptions), Get(config, kCompilerOptions),
                 kPaths)

\* A document with an include list, a compiler option and a paths node was
\* updated with merge = false and the paths node changed.
C22_Witness ==
  /\ Updated /\ ~last.merge
  /\ last.before.t = "obj"
  /\ kInclude \in Keys(last.before)
  /\ Cardinality(Keys(Get(last.before, kCompilerOptions)) \ {kPaths}) >= 1
  /\ Keys(PathsOf(last.before)) # {}
  /\ PathsOf(config) # PathsOf(last.before)

=============================================================================
